---- MODULE Spec2Model ----
(***************************************************************************)
(* Model of packages/rspack/src/config/adapter.ts: the translation of the  *)
(* normalized rspack options into the RawOptions record of the binding.    *)
(*                                                                         *)
(* JavaScript values are records with a tag field t:                       *)
(*   undefined, null, boolean, number, string   primitives (v: the text)   *)
(*   regexp   a RegExp object (source, flags)                              *)
(*   array    an Array (items: the elements in order)                      *)
(*   object   a plain object; its other fields are its properties          *)
(*   function a callable object without own and/or/not properties          *)
(*   throw    the completion of a call that threw (error, message)         *)
(* A property the source sets to undefined holds Undefined; reading a      *)
(* property that an object does not have also gives Undefined, as in JS.   *)
(***************************************************************************)
EXTENDS Integers, Sequences, FiniteSets, TLC

VARIABLES op, arg, ret, calls

vars == <<op, arg, ret, calls>>

(* Bounds of the explored inputs. *)
MaxLen == 2
MaxDepth == 3
MaxFields == 2
MaxMissing == 1

-----------------------------------------------------------------------------
(* JavaScript values *)

Undefined == [t |-> "undefined"]
Null == [t |-> "null"]
Bool(b) == [t |-> "boolean", v |-> IF b THEN "true" ELSE "false"]
Num(n) == [t |-> "number", v |-> n]
Str(s) == [t |-> "string", v |-> s]
RegExp(source, flags) == [t |-> "regexp", source |-> source, flags |-> flags]
Arr(items) == [t |-> "array", items |-> items]
Fn == [t |-> "function", name |-> "fn"]
Throw(error, message) == [t |-> "throw", error |-> error, message |-> message]

IsThrow(v) == v.t = "throw"

\* obj.key
Get(obj, key) == IF key \in DOMAIN obj THEN obj[key] ELSE Undefined

\* ToBoolean, the test of `x ? a : b`
Truthy(v) ==
    CASE v.t \in {"undefined", "null"} -> FALSE
      [] v.t = "boolean" -> v.v = "true"
      [] v.t = "number" -> v.v \notin {"0", "NaN"}
      [] v.t = "string" -> v.v # ""
      [] OTHER -> TRUE

\* x instanceof Object
InstanceOfObject(v) == v.t \in {"object", "array", "regexp", "function"}

isNil(v) == v.t \in {"undefined", "null"}

\* x ?? d
Coalesce(v, d) == IF isNil(v) THEN d ELSE v

\* assert(cond, message) of node's assert module
AssertionError(message) == Throw("AssertionError", message)

\* The first thrown completion of a sequence of results, in evaluation order.
FirstThrow(rs) ==
    rs[CHOOSE i \in DOMAIN rs :
          /\ IsThrow(rs[i])
          /\ \A j \in DOMAIN rs : j < i => ~IsThrow(rs[j])]

AnyThrow(rs) == \E i \in DOMAIN rs : IsThrow(rs[i])

\* The element of a singleton set.  Only({F(x) : x \in {e}}) is F applied to
\* the value of e: it names the result of a call, as `const x = e` does.
Only(S) == CHOOSE x \in S : TRUE

-----------------------------------------------------------------------------
(* getRawRuleSetCondition and getRawRuleSetLogicalConditions *)

RECURSIVE getRawRuleSetCondition(_)
RECURSIVE getRawRuleSetLogicalConditions(_)

\* The results of getRawRuleSetCondition on the elements, in order.
RECURSIVE ConditionResults(_)
ConditionResults(items) ==
    IF Len(items) = 0 THEN <<>>
    ELSE <<getRawRuleSetCondition(Head(items))>> \o ConditionResults(Tail(items))

\* Mutant of MapConditions: falsy elements are skipped before mapping.
MapConditionsSkipFalsy(list) ==
    IF list.t # "array"
    THEN Throw("TypeError", "map is not a function")
    ELSE Only({ IF AnyThrow(rs) THEN FirstThrow(rs) ELSE Arr(rs) :
                    rs \in {ConditionResults(SelectSeq(list.items, Truthy))} })

\* list.map(i => getRawRuleSetCondition(i)); a non-array has no map method
MapConditions(list) ==
    IF list.t # "array"
    THEN Throw("TypeError", "map is not a function")
    ELSE Only({ IF AnyThrow(rs) THEN FirstThrow(rs) ELSE Arr(rs) :
                    rs \in {ConditionResults(list.items)} })

UnreachableError ==
    Throw("Error",
          "unreachable: condition should be one of string, RegExp, Array, Object")

\* Mutant of LogicalVariant: the bare record instead of a one-element list.
LogicalVariantBare(condition) ==
    Only({ IF IsThrow(l) THEN l
           ELSE [t |-> "object", type |-> "logical", logicalMatcher |-> l] :
               l \in {getRawRuleSetLogicalConditions(condition)} })

\* the branch `condition instanceof Object && condition !== null`
LogicalVariant(condition) ==
    Only({ IF IsThrow(l) THEN l
           ELSE [t |-> "object", type |-> "logical",
                 logicalMatcher |-> Arr(<<l>>)] :
               l \in {getRawRuleSetLogicalConditions(condition)} })

getRawRuleSetCondition(condition) ==
    IF condition.t = "string"
    THEN [t |-> "object", type |-> "string", stringMatcher |-> condition]
    ELSE IF condition.t = "regexp"
    THEN [t |-> "object", type |-> "regexp",
          regexpMatcher |-> Str(condition.source)]
    ELSE IF condition.t = "array"
    THEN Only({ IF IsThrow(m) THEN m
                ELSE [t |-> "object", type |-> "array", arrayMatcher |-> m] :
                    m \in {MapConditions(condition)} })
    ELSE IF InstanceOfObject(condition) /\ condition.t # "null"
    THEN LogicalVariant(condition)
    ELSE UnreachableError

\* The three properties are evaluated in the order and, or, not.
getRawRuleSetLogicalConditions(logical) ==
    Only({ IF AnyThrow(p) THEN FirstThrow(p)
           ELSE [t |-> "object", and |-> p[1], or |-> p[2], not |-> p[3]] :
               p \in { << IF Truthy(Get(logical, "and"))
                          THEN MapConditions(Get(logical, "and"))
                          ELSE Undefined,
                          IF Truthy(Get(logical, "or"))
                          THEN MapConditions(Get(logical, "or"))
                          ELSE Undefined,
                          IF Truthy(Get(logical, "not"))
                          THEN getRawRuleSetCondition(Get(logical, "not"))
                          ELSE Undefined >> } })

-----------------------------------------------------------------------------
(* getRawModuleRule and getRawModule.  Both return the completion (res) and *)
(* the calls made while computing it, in order (log).                      *)

RECURSIVE Flatten(_)
Flatten(ss) == IF Len(ss) = 0 THEN <<>> ELSE Head(ss) \o Flatten(Tail(ss))

\* Index of the first step that threw, or 0.
FirstThrowAt(steps) ==
    IF \E i \in DOMAIN steps : IsThrow(steps[i].res)
    THEN CHOOSE i \in DOMAIN steps :
            /\ IsThrow(steps[i].res)
            /\ \A j \in DOMAIN steps : j < i => ~IsThrow(steps[j].res)
    ELSE 0

\* The calls made by steps evaluated in order until one throws.
LogOf(steps) ==
    Flatten(SubSeq([i \in DOMAIN steps |-> steps[i].log], 1,
                   IF FirstThrowAt(steps) = 0 THEN Len(steps)
                   ELSE FirstThrowAt(steps)))

\* The loader-chain encoder of ./adapter-rule-use: an opaque function of the
\* chain and the context it is given.
createRawModuleRuleUses(uses, options) ==
    [t |-> "rawUses", uses |-> uses, options |-> options]

CondFields ==
    <<"test", "include", "exclude", "resource", "resourceQuery", "issuer">>
CondFieldSet == {CondFields[i] : i \in DOMAIN CondFields}

\* rule.f ? getRawRuleSetCondition(rule.f) : undefined
ConditionStep(rule, f) ==
    IF Truthy(Get(rule, f))
    THEN [res |-> getRawRuleSetCondition(Get(rule, f)),
          log |-> <<[fn |-> "getRawRuleSetCondition", field |-> f]>>]
    ELSE [res |-> Undefined, log |-> <<>>]

\* use: createRawModuleRuleUses(rule.use ?? [], options)
UseStep(rule, options) ==
    [res |-> createRawModuleRuleUses(Coalesce(Get(rule, "use"), Arr(<<>>)),
                                     options),
     log |-> <<[fn |-> "createRawModuleRuleUses",
                uses |-> Coalesce(Get(rule, "use"), Arr(<<>>)),
                options |-> options]>>]

RECURSIVE getRawModuleRule(_, _)

\* The results of getRawModuleRule on the elements, in order.
RECURSIVE RuleResults(_, _)
RuleResults(items, options) ==
    IF Len(items) = 0 THEN <<>>
    ELSE <<getRawModuleRule(Head(items), options)>>
             \o RuleResults(Tail(items), options)

\* list.map(i => getRawModuleRule(i, options))
MapRules(list, options) ==
    IF list.t # "array"
    THEN [res |-> Throw("TypeError", "map is not a function"), log |-> <<>>]
    ELSE Only({ [res |-> IF FirstThrowAt(steps) # 0
                         THEN steps[FirstThrowAt(steps)].res
                         ELSE Arr([i \in DOMAIN steps |-> steps[i].res]),
                 log |-> LogOf(steps)] :
                    steps \in {RuleResults(list.items, options)} })

\* Mutant of OneOfStep: an empty oneOf list is treated as absent.
OneOfStepNonEmpty(rule, options) ==
    IF Truthy(Get(rule, "oneOf")) /\ Get(rule, "oneOf").t = "array"
       /\ Len(Get(rule, "oneOf").items) > 0
    THEN MapRules(Get(rule, "oneOf"), options)
    ELSE [res |-> Undefined, log |-> <<>>]

\* oneOf: rule.oneOf ? rule.oneOf.map(...) : undefined
OneOfStep(rule, options) ==
    IF Truthy(Get(rule, "oneOf"))
    THEN MapRules(Get(rule, "oneOf"), options)
    ELSE [res |-> Undefined, log |-> <<>>]

\* The properties of the returned literal are evaluated in source order.
getRawModuleRule(rule, options) ==
    Only({ [res |-> IF FirstThrowAt(steps) # 0
                    THEN steps[FirstThrowAt(steps)].res
                    ELSE [t |-> "object",
                          test |-> steps[1].res,
                          include |-> steps[2].res,
                          exclude |-> steps[3].res,
                          resource |-> steps[4].res,
                          resourceQuery |-> steps[5].res,
                          sideEffects |-> Get(rule, "sideEffects"),
                          use |-> steps[6].res,
                          type |-> Get(rule, "type"),
                          parser |-> Get(rule, "parser"),
                          generator |-> Get(rule, "generator"),
                          resolve |-> Get(rule, "resolve"),
                          issuer |-> steps[7].res,
                          oneOf |-> steps[8].res],
            log |-> <<[fn |-> "getRawModuleRule"]>> \o LogOf(steps)] :
               steps \in { << ConditionStep(rule, "test"),
                              ConditionStep(rule, "include"),
                              ConditionStep(rule, "exclude"),
                              ConditionStep(rule, "resource"),
                              ConditionStep(rule, "resourceQuery"),
                              UseStep(rule, options),
                              ConditionStep(rule, "issuer"),
                              OneOfStep(rule, options) >> } })

DefaultRulesMessage == "module.defaultRules should not be nil after defaults"

\* Mutant of SpreadRules: the user rules come first.
SpreadRulesUserFirst(module) ==
    IF Get(module, "defaultRules").t # "array" \/ Get(module, "rules").t # "array"
    THEN Throw("TypeError", "not iterable")
    ELSE Arr(Get(module, "rules").items \o Get(module, "defaultRules").items)

\* [...module.defaultRules, ...module.rules]
SpreadRules(module) ==
    IF Get(module, "defaultRules").t # "array" \/ Get(module, "rules").t # "array"
    THEN Throw("TypeError", "not iterable")
    ELSE Arr(Get(module, "defaultRules").items \o Get(module, "rules").items)

\* The rules and the parser of the returned literal.
ModuleOf(module, m) ==
    IF IsThrow(m.res) THEN m
    ELSE [res |-> [t |-> "object", rules |-> m.res,
                   parser |-> Get(module, "parser")],
          log |-> m.log]

\* Mutant of getRawModule: no assertion, absent default rules read as none.
getRawModuleNoAssert(module, options) ==
    Only({ ModuleOf(module, m) :
               m \in {MapRules(
                   Arr(Coalesce(Get(module, "defaultRules"), Arr(<<>>)).items
                       \o Get(module, "rules").items), options)} })

getRawModule(module, options) ==
    IF isNil(Get(module, "defaultRules"))
    THEN [res |-> AssertionError(DefaultRulesMessage), log |-> <<>>]
    ELSE IF IsThrow(SpreadRules(module))
    THEN [res |-> SpreadRules(module), log |-> <<>>]
    ELSE Only({ ModuleOf(module, m) :
                    m \in {MapRules(SpreadRules(module), options)} })

-----------------------------------------------------------------------------
(* The section encoders and getRawOptions *)

\* String(x) of a primitive
String(v) ==
    CASE v.t \in {"string", "number", "boolean"} -> Str(v.v)
      [] v.t = "undefined" -> Str("undefined")
      [] v.t = "null" -> Str("null")
      [] OTHER -> Str("[object Object]")

\* Object.keys(entry) are the fields of the record other than its tag.
getRawEntry(entry) ==
    [key \in DOMAIN entry |->
        IF key = "t" THEN "object"
        ELSE [t |-> "object",
              import |-> Get(entry[key], "import"),
              runtime |-> IF Get(entry[key], "runtime") = Bool(FALSE)
                          THEN Undefined ELSE Get(entry[key], "runtime")]]

getRawTarget(target) ==
    IF ~Truthy(target) THEN Arr(<<>>)
    ELSE IF target.t = "string" THEN Arr(<<target>>)
    ELSE target

OutputRequired ==
    {"path", "publicPath", "assetModuleFilename", "filename", "chunkFilename",
     "cssFilename", "cssChunkFilename", "uniqueName",
     "strictModuleErrorHandling"}

getRawOutput(output) ==
    IF \E f \in OutputRequired : isNil(Get(output, f))
    THEN AssertionError("fields should not be nil after defaults")
    ELSE [t |-> "object",
          path |-> Get(output, "path"),
          publicPath |-> Get(output, "publicPath"),
          assetModuleFilename |-> Get(output, "assetModuleFilename"),
          filename |-> Get(output, "filename"),
          chunkFilename |-> Get(output, "chunkFilename"),
          cssFilename |-> Get(output, "cssFilename"),
          cssChunkFilename |-> Get(output, "cssChunkFilename"),
          uniqueName |-> Get(output, "uniqueName"),
          library |-> Get(output, "library"),
          strictModuleErrorHandling |-> Get(output, "strictModuleErrorHandling")]

getRawExternals(externals) ==
    IF externals.t = "string"
    THEN [key \in {"t", externals.v} |->
             IF key = "t" THEN "object" ELSE externals]
    ELSE externals

getRawSplitChunksOptions(sc) ==
    [t |-> "object",
     cacheGroups |->
        IF Truthy(Get(sc, "cacheGroups"))
        THEN [key \in DOMAIN Get(sc, "cacheGroups") |->
                 IF key = "t" THEN "object"
                 ELSE [t |-> "object",
                       test |-> IF Truthy(Get(Get(sc, "cacheGroups")[key], "test"))
                                THEN Str(Get(sc, "cacheGroups")[key].test.source)
                                ELSE Undefined,
                       name |-> Get(Get(sc, "cacheGroups")[key], "name"),
                       priority |-> Get(Get(sc, "cacheGroups")[key], "priority"),
                       minChunks |-> Get(Get(sc, "cacheGroups")[key], "minChunks"),
                       chunks |-> Get(Get(sc, "cacheGroups")[key], "chunks")]]
        ELSE [t |-> "object"],
     chunks |-> Get(sc, "chunks"),
     maxAsyncRequests |-> Get(sc, "maxAsyncRequests"),
     maxInitialRequests |-> Get(sc, "maxInitialRequests"),
     minChunks |-> Get(sc, "minChunks"),
     minSize |-> Get(sc, "minSize"),
     enforceSizeThreshold |-> Get(sc, "enforceSizeThreshold"),
     minRemainingSize |-> Get(sc, "minRemainingSize")]

OptimizationMessage ==
    "optimization.moduleIds, optimization.removeAvailableModules, optimization.sideEffects should not be nil after defaults"

getRawOptimization(optimization) ==
    IF \/ isNil(Get(optimization, "moduleIds"))
       \/ isNil(Get(optimization, "removeAvailableModules"))
       \/ isNil(Get(optimization, "sideEffects"))
    THEN AssertionError(OptimizationMessage)
    ELSE [t |-> "object",
          splitChunks |-> IF Truthy(Get(optimization, "splitChunks"))
                          THEN getRawSplitChunksOptions(
                                   Get(optimization, "splitChunks"))
                          ELSE Undefined,
          moduleIds |-> Get(optimization, "moduleIds"),
          removeAvailableModules |-> Get(optimization, "removeAvailableModules"),
          sideEffects |-> String(Get(optimization, "sideEffects"))]

\* assert(value) without a message
NoMessage == "The expression evaluated to a falsy value"

getRawSnapshotOptions(snapshot) ==
    IF isNil(Get(snapshot, "resolve")) \/ isNil(Get(snapshot, "module"))
    THEN AssertionError(NoMessage)
    ELSE IF \/ isNil(Get(snapshot.resolve, "timestamp"))
            \/ isNil(Get(snapshot.resolve, "hash"))
            \/ isNil(Get(snapshot.module, "timestamp"))
            \/ isNil(Get(snapshot.module, "hash"))
    THEN AssertionError(NoMessage)
    ELSE [t |-> "object",
          resolve |-> [t |-> "object",
                       timestamp |-> snapshot.resolve.timestamp,
                       hash |-> snapshot.resolve.hash],
          module |-> [t |-> "object",
                      timestamp |-> snapshot.module.timestamp,
                      hash |-> snapshot.module.hash]]

getRawExperiments(experiments) ==
    IF \/ isNil(Get(experiments, "lazyCompilation"))
       \/ isNil(Get(experiments, "incrementalRebuild"))
    THEN AssertionError(NoMessage)
    ELSE [t |-> "object",
          lazyCompilation |-> experiments.lazyCompilation,
          incrementalRebuild |-> experiments.incrementalRebuild]

\* Mutant of getRawNode: no assertion.
getRawNodeNoAssert(node) ==
    [t |-> "object", dirname |-> String(Get(node, "__dirname"))]

getRawNode(node) ==
    IF isNil(Get(node, "__dirname"))
    THEN AssertionError(NoMessage)
    ELSE [t |-> "object", dirname |-> String(Get(node, "__dirname"))]

\* The stats normalisation of ../stats: an opaque function of the stats option.
normalizeStatsPreset(stats) ==
    [t |-> "object", colors |-> Get(stats, "colors")]

\* const devtool = options.devtool === false ? "" : options.devtool
NormalizedDevtool(options) ==
    IF Get(options, "devtool") = Bool(FALSE) THEN Str("")
    ELSE Get(options, "devtool")

\* Mutant of ModuleContext: the context carries the option as written.
ModuleContextRaw(options, compiler, devtool) ==
    [compiler |-> compiler, devtool |-> Get(options, "devtool"),
     context |-> Get(options, "context")]

\* { compiler, devtool, context: options.context }
ModuleContext(options, compiler, devtool) ==
    [compiler |-> compiler, devtool |-> devtool,
     context |-> Get(options, "context")]

TopLevelMessage == "context, devtool, cache should not be nil after defaults"

RawCache(options) ==
    [t |-> "object",
     type |-> IF Truthy(Get(options, "cache")) THEN Str("memory")
              ELSE Str("disable"),
     maxGenerations |-> Num("0"), maxAge |-> Num("0"), profile |-> Bool(FALSE),
     buildDependencies |-> Arr(<<>>), cacheDirectory |-> Str(""),
     cacheLocation |-> Str(""), name |-> Str(""), version |-> Str("")]

\* The returned literal; its properties are evaluated in source order, and
\* the first section that throws ends the call.
getRawOptions(options, compiler) ==
    IF \/ isNil(Get(options, "context"))
       \/ isNil(Get(options, "devtool"))
       \/ isNil(Get(options, "cache"))
    THEN [res |-> AssertionError(TopLevelMessage), log |-> <<>>]
    ELSE Only({
        [res |->
            IF FirstThrowAt(s) # 0 THEN s[FirstThrowAt(s)].res
            ELSE [t |-> "object",
                  entry |-> s[1].res,
                  mode |-> Get(options, "mode"),
                  target |-> s[2].res,
                  context |-> Get(options, "context"),
                  output |-> s[3].res,
                  resolve |-> Get(options, "resolve"),
                  module |-> s[4].res,
                  externals |-> s[5].res,
                  externalsType |-> IF Get(options, "externalsType") = Undefined
                                    THEN Str("")
                                    ELSE Get(options, "externalsType"),
                  devtool |-> NormalizedDevtool(options),
                  optimization |-> s[6].res,
                  stats |-> s[7].res,
                  devServer |-> s[8].res,
                  snapshot |-> s[9].res,
                  cache |-> RawCache(options),
                  experiments |-> s[10].res,
                  node |-> s[11].res,
                  builtins |-> Get(options, "builtins")],
         log |-> LogOf(s)] :
        s \in { <<
            [res |-> getRawEntry(Get(options, "entry")), log |-> <<>>],
            [res |-> getRawTarget(Get(options, "target")), log |-> <<>>],
            [res |-> getRawOutput(Get(options, "output")), log |-> <<>>],
            getRawModule(Get(options, "module"),
                         ModuleContext(options, compiler,
                                       NormalizedDevtool(options))),
            [res |-> IF Truthy(Get(options, "externals"))
                     THEN getRawExternals(Get(options, "externals"))
                     ELSE [t |-> "object"],
             log |-> <<>>],
            [res |-> getRawOptimization(Get(options, "optimization")),
             log |-> <<>>],
            [res |-> [t |-> "object",
                      colors |-> Coalesce(
                          Get(normalizeStatsPreset(Get(options, "stats")),
                              "colors"),
                          Bool(FALSE))],
             log |-> <<>>],
            [res |-> [t |-> "object",
                      hot |-> Coalesce(Get(Get(options, "devServer"), "hot"),
                                       Bool(FALSE))],
             log |-> <<>>],
            [res |-> getRawSnapshotOptions(Get(options, "snapshot")),
             log |-> <<>>],
            [res |-> getRawExperiments(Get(options, "experiments")),
             log |-> <<>>],
            [res |-> getRawNode(Get(options, "node")), log |-> <<>>]
        >> } })

-----------------------------------------------------------------------------
(* Inputs *)

SeqsUpTo(S, n) == UNION {[1..k -> S] : k \in 0..n}

\* A plain object read as RuleSetLogicalConditions; an absent key is Undefined.
Logical(a, o, n) == [t |-> "object", and |-> a, or |-> o, not |-> n]

ValidAtoms == {Str(""), Str("a"), RegExp("a", "i")}
BadAtoms == {Num("0"), Num("5"), Null, Fn}
Atoms == ValidAtoms \cup BadAtoms
ListAtoms == {Str(""), Str("a"), Num("5")}

Arrays == {Arr(s) : s \in SeqsUpTo(Atoms, MaxLen)}
Lists == {Undefined} \cup {Arr(s) : s \in SeqsUpTo(ListAtoms, MaxLen)}
Logicals == {Logical(a, o, n) : a \in Lists, o \in Lists,
                               n \in {Undefined} \cup Atoms}

Seeds ==
    Atoms \cup
    { Arr(<<>>), Arr(<<Str("a"), RegExp("a", "i")>>),
      Logical(Undefined, Undefined, Undefined),
      Logical(Undefined, Arr(<<Str("a")>>), Undefined),
      Logical(Undefined, Undefined, Str("")) }

Wrap(c) ==
    { Arr(<<c>>), Arr(<<Str("a"), c>>),
      Logical(Undefined, Undefined, c),
      Logical(Arr(<<c>>), Undefined, Undefined),
      Logical(Undefined, Arr(<<c, Str("a")>>), Undefined) }

RECURSIVE Deep(_)
Deep(d) == IF d <= 1 THEN Seeds
           ELSE Deep(d - 1) \cup UNION {Wrap(c) : c \in Deep(d - 1)}

Conditions == Atoms \cup Arrays \cup Logicals \cup Deep(MaxDepth)
LogicalInputs == Logicals \cup {c \in Deep(MaxDepth) : c.t = "object"}

\* A RuleSetRule; an absent property is Undefined.
EmptyRule ==
    [t |-> "object", test |-> Undefined, include |-> Undefined,
     exclude |-> Undefined, resource |-> Undefined, resourceQuery |-> Undefined,
     issuer |-> Undefined, sideEffects |-> Undefined, use |-> Undefined,
     type |-> Undefined, parser |-> Undefined, generator |-> Undefined,
     resolve |-> Undefined, oneOf |-> Undefined]

Loader == Arr(<<Str("builtin:sass-loader")>>)

RuleConditionValues ==
    {Str(""), Str("a"), RegExp("a", "i"), Arr(<<>>), Arr(<<Num("5")>>), Num("0")}

\* Rules without oneOf in which at most MaxFields condition fields are set.
FlatRules ==
    UNION { UNION { { [f \in DOMAIN EmptyRule |->
                          IF f \in fs THEN v[f] ELSE EmptyRule[f]]
                      : v \in [fs -> RuleConditionValues] }
                    : fs \in {x \in SUBSET CondFieldSet : Cardinality(x) = k} }
            : k \in 0..MaxFields }

TestRule == [EmptyRule EXCEPT !.test = Str("a")]
UseRule == [EmptyRule EXCEPT !.test = Str(""), !.use = Loader,
                             !.sideEffects = Bool(FALSE)]
TypeRule == [EmptyRule EXCEPT !.exclude = RegExp("a", "i"),
                              !.type = Str("javascript/auto")]
BadRule == [EmptyRule EXCEPT !.include = Arr(<<Num("5")>>)]

Leaves == {EmptyRule, TestRule, UseRule, TypeRule, BadRule}

RECURSIVE Trees(_)
Trees(d) ==
    IF d <= 1
    THEN Leaves \cup
         { [p EXCEPT !.oneOf = Arr(s)] :
               p \in {EmptyRule, UseRule}, s \in SeqsUpTo(Leaves, MaxLen) }
    ELSE Trees(d - 1) \cup
         { [EmptyRule EXCEPT !.oneOf = Arr(<<r>>)] : r \in Trees(d - 1) } \cup
         { [TestRule EXCEPT !.oneOf = Arr(<<UseRule, r>>)] : r \in Trees(d - 1) }

Rules == FlatRules \cup Trees(MaxDepth)

Contexts ==
    { [compiler |-> "compiler", devtool |-> d, context |-> Str("/root")] :
          d \in {Str(""), Str("source-map")} }

NestedRule == [TestRule EXCEPT !.oneOf = Arr(<<UseRule, TypeRule>>)]
ListRules == {TestRule, UseRule, NestedRule, BadRule}
RuleLists == {Arr(s) : s \in SeqsUpTo(ListRules, MaxLen)}

ParserOptions == [t |-> "object", asset |-> Str("inline")]

Modules ==
    { [t |-> "object", defaultRules |-> d, rules |-> u, parser |-> p] :
          d \in {Undefined, Null} \cup RuleLists, u \in RuleLists,
          p \in {Undefined, ParserOptions} }

\* The fields the source asserts to be non-nil, by path.
RequiredPaths ==
    {"context", "devtool", "cache",
     "output.path", "output.publicPath", "output.assetModuleFilename",
     "output.filename", "output.chunkFilename", "output.cssFilename",
     "output.cssChunkFilename", "output.uniqueName",
     "output.strictModuleErrorHandling",
     "module.defaultRules",
     "optimization.moduleIds", "optimization.removeAvailableModules",
     "optimization.sideEffects",
     "snapshot.resolve", "snapshot.module",
     "snapshot.resolve.timestamp", "snapshot.resolve.hash",
     "snapshot.module.timestamp", "snapshot.module.hash",
     "experiments.lazyCompilation", "experiments.incrementalRebuild",
     "node.__dirname"}

RECURSIVE MissingSets(_)
MissingSets(k) ==
    IF k = 0 THEN {{}}
    ELSE MissingSets(k - 1) \cup
         {m \cup {path} : m \in MissingSets(k - 1), path \in RequiredPaths}

OptionModules ==
    { [t |-> "object", defaultRules |-> Arr(d), rules |-> Arr(u),
       parser |-> ParserOptions] :
          d \in {<<>>, <<UseRule, NestedRule>>},
          u \in {<<>>, <<NestedRule, TestRule>>, <<TestRule, BadRule>>} }

Devtools == {Bool(FALSE), Str("source-map")}

\* Normalized options in which the paths of missing hold nil and every other
\* field holds a defaulted value.  The sections (entry, output, module,
\* optimization, snapshot, experiments, node) are objects and module.rules is
\* a list, as RspackOptionsNormalized requires.
Options(missing, nil, devtool, module) ==
    LET F(path, value) == IF path \in missing THEN nil ELSE value
    IN  [t |-> "object",
         entry |-> [t |-> "object",
                    main |-> [t |-> "object",
                              import |-> Arr(<<Str("./src/index.js")>>),
                              runtime |-> Bool(FALSE)]],
         mode |-> Str("development"),
         target |-> Str("web"),
         context |-> F("context", Str("/root")),
         output |->
            [t |-> "object",
             path |-> F("output.path", Str("/root/dist")),
             publicPath |-> F("output.publicPath", Str("auto")),
             assetModuleFilename |->
                F("output.assetModuleFilename", Str("[hash][ext][query]")),
             filename |-> F("output.filename", Str("[name].js")),
             chunkFilename |-> F("output.chunkFilename", Str("[name].js")),
             cssFilename |-> F("output.cssFilename", Str("[name].css")),
             cssChunkFilename |-> F("output.cssChunkFilename", Str("[name].css")),
             uniqueName |-> F("output.uniqueName", Str("")),
             library |-> Undefined,
             strictModuleErrorHandling |->
                F("output.strictModuleErrorHandling", Bool(FALSE))],
         resolve |-> [t |-> "object"],
         module |-> [module EXCEPT
                        !.defaultRules = F("module.defaultRules", @)],
         externals |-> Str("react"),
         externalsType |-> Undefined,
         devtool |-> F("devtool", devtool),
         optimization |->
            [t |-> "object",
             splitChunks |->
                [t |-> "object",
                 cacheGroups |->
                    [t |-> "object",
                     vendors |-> [t |-> "object",
                                  test |-> RegExp("node_modules", "i"),
                                  name |-> Str("vendors"),
                                  priority |-> Num("1"),
                                  minChunks |-> Num("1"),
                                  chunks |-> Str("all")]],
                 chunks |-> Str("async")],
             moduleIds |-> F("optimization.moduleIds", Str("named")),
             removeAvailableModules |->
                F("optimization.removeAvailableModules", Bool(TRUE)),
             sideEffects |-> F("optimization.sideEffects", Bool(TRUE))],
         stats |-> [t |-> "object"],
         devServer |-> Undefined,
         snapshot |->
            [t |-> "object",
             resolve |->
                F("snapshot.resolve",
                  [t |-> "object",
                   timestamp |-> F("snapshot.resolve.timestamp", Bool(TRUE)),
                   hash |-> F("snapshot.resolve.hash", Bool(FALSE))]),
             module |->
                F("snapshot.module",
                  [t |-> "object",
                   timestamp |-> F("snapshot.module.timestamp", Bool(TRUE)),
                   hash |-> F("snapshot.module.hash", Bool(FALSE))])],
         cache |-> F("cache", Bool(TRUE)),
         experiments |->
            [t |-> "object",
             lazyCompilation |-> F("experiments.lazyCompilation", Bool(FALSE)),
             incrementalRebuild |->
                F("experiments.incrementalRebuild", Bool(TRUE))],
         node |-> [key \in {"t", "__dirname"} |->
                      IF key = "t" THEN "object"
                      ELSE F("node.__dirname", Str("mock"))],
         builtins |-> [t |-> "object"]]

OptionsInputs ==
    { Options(missing, nil, devtool, module) :
          missing \in MissingSets(MaxMissing), nil \in {Undefined, Null},
          devtool \in Devtools, module \in OptionModules }

-----------------------------------------------------------------------------
(* The state machine: one call of one exported or internal function. *)

Init ==
    /\ op = "idle"
    /\ arg = Undefined
    /\ ret = Undefined
    /\ calls = <<>>

CallGetRawRuleSetCondition ==
    /\ op = "idle"
    /\ \E c \in Conditions :
        /\ op' = "getRawRuleSetCondition"
        /\ arg' = c
        /\ ret' = getRawRuleSetCondition(c)
        /\ calls' = <<>>

CallGetRawRuleSetLogicalConditions ==
    /\ op = "idle"
    /\ \E l \in LogicalInputs :
        /\ op' = "getRawRuleSetLogicalConditions"
        /\ arg' = l
        /\ ret' = getRawRuleSetLogicalConditions(l)
        /\ calls' = <<>>

CallGetRawModuleRule ==
    /\ op = "idle"
    /\ \E rule \in Rules, options \in Contexts :
        \E r \in {getRawModuleRule(rule, options)} :
            /\ op' = "getRawModuleRule"
            /\ arg' = [rule |-> rule, options |-> options]
            /\ ret' = r.res
            /\ calls' = r.log

CallGetRawModule ==
    /\ op = "idle"
    /\ \E module \in Modules, options \in Contexts :
        \E r \in {getRawModule(module, options)} :
            /\ op' = "getRawModule"
            /\ arg' = [module |-> module, options |-> options]
            /\ ret' = r.res
            /\ calls' = r.log

CallGetRawOptions ==
    /\ op = "idle"
    /\ \E options \in OptionsInputs :
        /\ op' = "getRawOptions"
        /\ arg' = options
        /\ \E r \in {getRawOptions(options, "compiler")} :
              /\ ret' = r.res
              /\ calls' = r.log

Next ==
    \/ CallGetRawRuleSetCondition
    \/ CallGetRawRuleSetLogicalConditions
    \/ CallGetRawModuleRule
    \/ CallGetRawModule
    \/ CallGetRawOptions

Spec == Init /\ [][Next]_vars

-----------------------------------------------------------------------------
(* Properties of the condition encoder *)

Present(v) == v.t # "undefined"

\* A Condition built only from the four recognised shapes.
RECURSIVE WellShaped(_)
WellShapedList(l) ==
    l.t = "array" /\ \A i \in 1..Len(l.items) : WellShaped(l.items[i])
WellShaped(c) ==
    CASE c.t \in {"string", "regexp"} -> TRUE
      [] c.t = "array" -> WellShapedList(c)
      [] c.t = "object" ->
            /\ DOMAIN c = {"t", "and", "or", "not"}
            /\ (Present(c.and) => WellShapedList(c.and))
            /\ (Present(c.or) => WellShapedList(c.or))
            /\ (Present(c.not) => WellShaped(c.not))
      [] OTHER -> FALSE

\* The discriminant the shape of an input node calls for.
ShapeTag(c) ==
    CASE c.t = "string" -> "string"
      [] c.t = "regexp" -> "regexp"
      [] c.t = "array" -> "array"
      [] c.t = "object" -> "logical"
      [] OTHER -> "none"

PayloadOf(tag) ==
    CASE tag = "string" -> "stringMatcher"
      [] tag = "regexp" -> "regexpMatcher"
      [] tag = "array" -> "arrayMatcher"
      [] tag = "logical" -> "logicalMatcher"
      [] OTHER -> "none"

\* Every node of the encoded tree e, paired with the input node c it encodes,
\* has the discriminant of c's shape and exactly the payload of that
\* discriminant.
RECURSIVE NodeOK(_, _)
NodesOK(cs, es) ==
    /\ cs.t = "array" /\ es.t = "array"
    /\ \A i \in 1..Len(es.items) :
          i <= Len(cs.items) /\ NodeOK(cs.items[i], es.items[i])
NodeOK(c, e) ==
    /\ e.t = "object"
    /\ "type" \in DOMAIN e
    /\ e.type \in {"string", "regexp", "array", "logical"}
    /\ e.type = ShapeTag(c)
    /\ DOMAIN e = {"t", "type", PayloadOf(e.type)}
    /\ CASE e.type = "string" -> e.stringMatcher = Str(c.v)
         [] e.type = "regexp" -> e.regexpMatcher = Str(c.source)
         [] e.type = "array" -> NodesOK(c, e.arrayMatcher)
         [] e.type = "logical" ->
               /\ e.logicalMatcher.t = "array"
               /\ Len(e.logicalMatcher.items) = 1
               /\ LET l == e.logicalMatcher.items[1]
                  IN  /\ l.t = "object"
                      /\ (Present(l.and) => NodesOK(c.and, l.and))
                      /\ (Present(l.or) => NodesOK(c.or, l.or))
                      /\ (Present(l.not) => NodeOK(c.not, l.not))

\* C1: for a Condition built from the four recognised shapes, nested to any
\* depth, getRawRuleSetCondition returns a tree in which every node carries
\* the discriminant of the input node's shape and exactly the one payload
\* field of that discriminant: the text, the pattern source, the list, or a
\* single-element list holding the logical record.
C1_TaggedVariant ==
    (op = "getRawRuleSetCondition" /\ WellShaped(arg))
        => (~IsThrow(ret) /\ NodeOK(arg, ret))

C1_Witness ==
    /\ op = "getRawRuleSetCondition"
    /\ arg = Logical(Arr(<<Arr(<<Str("a"), RegExp("a", "i")>>)>>),
                     Undefined, Undefined)
    /\ ret.type = "logical"
    /\ ret.logicalMatcher.items[1].and.items[1].arrayMatcher.items[2].type
           = "regexp"

\* Every ordered list in the input c, paired with its encoding e, is encoded
\* to an array variant of the same length whose i-th element is the encoding
\* of the i-th sub-condition.
RECURSIVE ListOK(_, _)
ListsOK(cs, es) ==
    \A i \in 1..Len(es.items) :
        i <= Len(cs.items) => ListOK(cs.items[i], es.items[i])
ListOK(c, e) ==
    CASE c.t = "array" ->
            /\ e.type = "array"
            /\ Len(e.arrayMatcher.items) = Len(c.items)
            /\ \A i \in 1..Len(c.items) :
                  /\ e.arrayMatcher.items[i] = getRawRuleSetCondition(c.items[i])
                  /\ ListOK(c.items[i], e.arrayMatcher.items[i])
      [] c.t = "object" ->
            LET l == e.logicalMatcher.items[1]
            IN  /\ (Present(l.and) => ListsOK(c.and, l.and))
                /\ (Present(l.or) => ListsOK(c.or, l.or))
                /\ (Present(l.not) => ListOK(c.not, l.not))
      [] OTHER -> TRUE

\* C2: an ordered list of N sub-conditions, at any nesting depth, is encoded
\* to an array variant whose arrayMatcher has N elements, the i-th being the
\* encoding of the i-th sub-condition: none dropped, duplicated or reordered.
C2_ArrayElementwise ==
    (op = "getRawRuleSetCondition" /\ WellShaped(arg))
        => (~IsThrow(ret) /\ ListOK(arg, ret))

C2_Witness ==
    /\ op = "getRawRuleSetCondition"
    /\ arg = Arr(<<Str("a"), Arr(<<Str("a"), RegExp("a", "i")>>)>>)
    /\ ret.type = "array"
    /\ Len(ret.arrayMatcher.items) = 2
    /\ ret.arrayMatcher.items[2].arrayMatcher.items[2].regexpMatcher = Str("a")

WellShapedLogical(l) == l.t = "object" /\ WellShaped(l)

ListEncoded(cs, es) ==
    /\ es.t = "array"
    /\ Len(es.items) = Len(cs.items)
    /\ \A i \in 1..Len(cs.items) :
          es.items[i] = getRawRuleSetCondition(cs.items[i])

\* C3: getRawRuleSetLogicalConditions returns a record in which each of and,
\* or, not is present exactly when it is present in the input: a present
\* and/or list is encoded element-wise in order, a present not is the encoding
\* of that condition, an absent key stays absent.
C3_LogicalKeysPreserved ==
    (op = "getRawRuleSetLogicalConditions" /\ WellShapedLogical(arg))
        => /\ ~IsThrow(ret)
           /\ (Present(ret.and) <=> Present(arg.and))
           /\ (Present(ret.or) <=> Present(arg.or))
           /\ (Present(ret.not) <=> Present(arg.not))
           /\ (Present(arg.and) => ListEncoded(arg.and, ret.and))
           /\ (Present(arg.or) => ListEncoded(arg.or, ret.or))
           /\ (Present(arg.not) => ret.not = getRawRuleSetCondition(arg.not))

\* A value that is none of the four recognised shapes, at the top level or
\* nested inside a list or a logical combination.
RECURSIVE HasUnsupported(_)
ListHasUnsupported(l) ==
    l.t = "array" /\ \E i \in 1..Len(l.items) : HasUnsupported(l.items[i])
HasUnsupported(c) ==
    CASE c.t \in {"string", "regexp"} -> FALSE
      [] c.t = "array" -> ListHasUnsupported(c)
      [] c.t = "object" ->
            \/ (Present(c.and) /\ ListHasUnsupported(c.and))
            \/ (Present(c.or) /\ ListHasUnsupported(c.or))
            \/ (Present(c.not) /\ HasUnsupported(c.not))
      [] OTHER -> TRUE

\* C8: given a condition value that is none of the four recognised shapes, at
\* the top level or nested inside a list or a logical combination, the
\* encoder fails with the unsupported-condition-shape error and returns no
\* encoded condition.
C8_UnsupportedShapeFails ==
    (op = "getRawRuleSetCondition" /\ HasUnsupported(arg))
        => ret = UnreachableError

-----------------------------------------------------------------------------
(* Properties of the rule and module compilers *)

\* A rule tree whose condition fields, where present, are Conditions of the
\* four recognised shapes.
RECURSIVE WellFormedRule(_)
WellFormedRule(rule) ==
    /\ \A f \in CondFieldSet : Present(rule[f]) => WellShaped(rule[f])
    /\ Present(rule.oneOf) =>
          /\ rule.oneOf.t = "array"
          /\ \A i \in 1..Len(rule.oneOf.items) :
                WellFormedRule(rule.oneOf.items[i])

WellFormedRules(list) ==
    list.t = "array" /\ \A i \in 1..Len(list.items) : WellFormedRule(list.items[i])

Max(S) == IF S = {} THEN 0 ELSE CHOOSE x \in S : \A y \in S : y <= x

\* The depth of the oneOf nesting of a rule, encoded or not.
RECURSIVE RuleDepth(_)
RuleDepth(rule) ==
    IF ~Present(rule.oneOf) THEN 0
    ELSE 1 + Max({RuleDepth(rule.oneOf.items[i]) :
                      i \in 1..Len(rule.oneOf.items)})

\* The number of rules of a tree, the root included.
RECURSIVE CountRules(_)
RECURSIVE CountRulesIn(_)
CountRulesIn(items) ==
    IF Len(items) = 0 THEN 0
    ELSE CountRules(Head(items)) + CountRulesIn(Tail(items))
CountRules(rule) ==
    1 + (IF Present(rule.oneOf) THEN CountRulesIn(rule.oneOf.items) ELSE 0)

CallsOf(fn) == SelectSeq(calls, LAMBDA c : c.fn = fn)

RECURSIVE OneOfOK(_, _, _)
OneOfOK(rule, enc, options) ==
    IF ~Present(rule.oneOf) THEN ~Present(enc.oneOf)
    ELSE /\ enc.oneOf.t = "array"
         /\ Len(enc.oneOf.items) = Len(rule.oneOf.items)
         /\ \A i \in 1..Len(rule.oneOf.items) :
               /\ enc.oneOf.items[i]
                     = getRawModuleRule(rule.oneOf.items[i], options).res
               /\ OneOfOK(rule.oneOf.items[i], enc.oneOf.items[i], options)

\* C6: getRawModuleRule preserves the oneOf structure: nesting of depth D
\* compiles to depth D, at every level a present oneOf list of K sub-rules
\* compiles to K encoded sub-rules in the same order, each compiled with the
\* same context, and an absent oneOf stays absent.
C6_OneOfPreserved ==
    (op = "getRawModuleRule" /\ WellFormedRule(arg.rule))
        => /\ ~IsThrow(ret)
           /\ OneOfOK(arg.rule, ret, arg.options)
           /\ RuleDepth(ret) = RuleDepth(arg.rule)
           /\ Len(CallsOf("getRawModuleRule")) = CountRules(arg.rule)
           /\ \A i \in DOMAIN calls :
                 calls[i].fn = "createRawModuleRuleUses"
                     => calls[i].options = arg.options

C6_Witness ==
    /\ op = "getRawModuleRule"
    /\ WellFormedRule(arg.rule)
    /\ RuleDepth(arg.rule) = 3
    /\ ~IsThrow(ret)
    /\ RuleDepth(ret) = 3
    /\ Len(ret.oneOf.items[1].oneOf.items) = 2
    /\ ret.oneOf.items[1].oneOf.items[2].oneOf.items = <<>>

\* C7: for each of test, include, exclude, resource, resourceQuery and issuer,
\* a field present in the input rule is carried by the encoded rule as the
\* encoding of its value, and an absent field is omitted.
C7_ConditionFieldsPreserved ==
    (op = "getRawModuleRule" /\ WellFormedRule(arg.rule))
        => /\ ~IsThrow(ret)
           /\ \A f \in CondFieldSet :
                 IF Present(arg.rule[f])
                 THEN ret[f] = getRawRuleSetCondition(arg.rule[f])
                 ELSE ~Present(ret[f])

\* C4: getRawModule returns |D| + |U| rules, the compiled default rules in
\* their order followed by the compiled user rules in theirs, never
\* reordered, merged or deduplicated, and passes the parser config through.
C4_RulesConcatenated ==
    (/\ op = "getRawModule"
     /\ WellFormedRules(arg.module.defaultRules)
     /\ WellFormedRules(arg.module.rules))
        => /\ ~IsThrow(ret)
           /\ ret.rules.t = "array"
           /\ Len(ret.rules.items) = Len(arg.module.defaultRules.items)
                                       + Len(arg.module.rules.items)
           /\ \A i \in 1..Len(arg.module.defaultRules.items) :
                 ret.rules.items[i]
                     = getRawModuleRule(arg.module.defaultRules.items[i],
                                        arg.options).res
           /\ \A j \in 1..Len(arg.module.rules.items) :
                 ret.rules.items[Len(arg.module.defaultRules.items) + j]
                     = getRawModuleRule(arg.module.rules.items[j],
                                        arg.options).res
           /\ ret.parser = arg.module.parser

C4_Witness ==
    /\ op = "getRawModule"
    /\ arg.module.defaultRules = Arr(<<TestRule, UseRule>>)
    /\ arg.module.rules = Arr(<<TestRule>>)
    /\ arg.module.parser = ParserOptions
    /\ ~IsThrow(ret)
    /\ Len(ret.rules.items) = 3
    /\ ret.rules.items[1] = ret.rules.items[3]
    /\ ret.rules.items[1] # ret.rules.items[2]

\* C5: when module.defaultRules is null or undefined, getRawModule raises the
\* precondition violation before any rule is compiled: no call of
\* getRawModuleRule, of the condition encoder or of createRawModuleRuleUses
\* is made, and no rule list is returned.
C5_DefaultRulesAsserted ==
    /\ (op = "getRawModule" /\ isNil(arg.module.defaultRules))
          => (ret = AssertionError(DefaultRulesMessage) /\ calls = <<>>)
    /\ (op = "getRawOptions" /\ isNil(arg.module.defaultRules))
          => (IsThrow(ret) /\ calls = <<>>)

C5_Witness ==
    /\ op = "getRawModule"
    /\ arg.module.defaultRules = Undefined
    /\ Len(arg.module.rules.items) = 2
    /\ ret = AssertionError(DefaultRulesMessage)
    /\ calls = <<>>

-----------------------------------------------------------------------------
(* Properties of getRawOptions *)

AllRules(options) ==
    options.module.defaultRules.items \o options.module.rules.items

\* C9: devtool is normalised once: when options.devtool is false the output's
\* devtool is the empty string and so is the devtool of the context of every
\* createRawModuleRuleUses call, for default rules, user rules and nested
\* oneOf sub-rules; any other value is carried unchanged in both places.
C9_DevtoolNormalisedOnce ==
    (op = "getRawOptions" /\ ~isNil(arg.devtool))
        => LET d == IF arg.devtool = Bool(FALSE) THEN Str("") ELSE arg.devtool
           IN  /\ \A i \in DOMAIN calls :
                     calls[i].fn = "createRawModuleRuleUses"
                         => calls[i].options.devtool = d
               /\ ~IsThrow(ret) =>
                     /\ ret.devtool = d
                     /\ Len(CallsOf("createRawModuleRuleUses"))
                            = CountRulesIn(AllRules(arg))

C9_Witness ==
    /\ op = "getRawOptions"
    /\ arg.devtool = Bool(FALSE)
    /\ ~IsThrow(ret)
    /\ ret.devtool = Str("")
    /\ Len(CallsOf("createRawModuleRuleUses")) = 8
    /\ \A i \in DOMAIN calls :
          calls[i].fn = "createRawModuleRuleUses"
              => calls[i].options.devtool = Str("")

\* A field validated before the module rules are compiled is absent.
EarlyAbsent(o) ==
    \/ isNil(o.context) \/ isNil(o.devtool) \/ isNil(o.cache)
    \/ \E f \in OutputRequired : isNil(o.output[f])
    \/ isNil(o.module.defaultRules)

\* A field validated after the module rules are compiled is absent.
LateAbsent(o) ==
    \/ isNil(o.optimization.moduleIds)
    \/ isNil(o.optimization.removeAvailableModules)
    \/ isNil(o.optimization.sideEffects)
    \/ isNil(Get(o.snapshot.resolve, "timestamp"))
    \/ isNil(Get(o.snapshot.resolve, "hash"))
    \/ isNil(Get(o.snapshot.module, "timestamp"))
    \/ isNil(Get(o.snapshot.module, "hash"))
    \/ isNil(o.experiments.lazyCompilation)
    \/ isNil(o.experiments.incrementalRebuild)
    \/ isNil(o.node["__dirname"])

AnyRequiredAbsent(o) == EarlyAbsent(o) \/ LateAbsent(o)

AllConditionsRecognised(o) ==
    /\ isNil(o.module.defaultRules) \/ WellFormedRules(o.module.defaultRules)
    /\ WellFormedRules(o.module.rules)

RawOptionsFields ==
    {"t", "entry", "mode", "target", "context", "output", "resolve", "module",
     "externals", "externalsType", "devtool", "optimization", "stats",
     "devServer", "snapshot", "cache", "experiments", "node", "builtins"}

CompleteRecord(r) ==
    /\ r.t = "object"
    /\ DOMAIN r = RawOptionsFields
    /\ \A f \in {"entry", "target", "output", "module", "externals",
                 "optimization", "stats", "devServer", "snapshot", "cache",
                 "experiments", "node"} : r[f].t \in {"object", "array"}
    /\ r.context.t = "string"
    /\ r.devtool.t = "string"
    /\ r.module.rules.t = "array"

\* C10: translation is all-or-nothing: if any required-after-defaulting field
\* is absent, getRawOptions fails with a precondition violation and returns
\* no record; if none is absent and every condition has a recognised shape,
\* it returns a complete record.
C10_AllOrNothing ==
    op = "getRawOptions"
        => /\ AnyRequiredAbsent(arg)
                 => (IsThrow(ret) /\ ret.error = "AssertionError")
           /\ (~AnyRequiredAbsent(arg) /\ AllConditionsRecognised(arg))
                 => CompleteRecord(ret)

\* C10 as amended: if any required-after-defaulting field is absent,
\* getRawOptions fails and returns no record; the failure is a precondition
\* violation, except that when every absent field is validated after the
\* module section (optimization, snapshot, experiments, node) and a module
\* rule holds a condition of unsupported shape, the unsupported-condition-
\* shape error may be raised instead; if none is absent and every condition
\* has a recognised shape, it returns a complete record.
C10_AllOrNothingAmended ==
    op = "getRawOptions"
        => /\ AnyRequiredAbsent(arg)
                 => /\ IsThrow(ret)
                    /\ \/ ret.error = "AssertionError"
                       \/ /\ ret = UnreachableError
                          /\ ~EarlyAbsent(arg)
                          /\ ~AllConditionsRecognised(arg)
           /\ (~AnyRequiredAbsent(arg) /\ AllConditionsRecognised(arg))
                 => CompleteRecord(ret)

C10_Witness ==
    /\ op = "getRawOptions"
    /\ isNil(arg.node["__dirname"])
    /\ ~EarlyAbsent(arg)
    /\ AllConditionsRecognised(arg)
    /\ Len(AllRules(arg)) = 4
    /\ ret = AssertionError(NoMessage)

====
